---- MODULE Spec2Model ----
(***************************************************************************)
(* Model of pg_es.ElasticsearchFDW (src/pg_es/__init__.py): the foreign    *)
(* data wrapper that maps an Elasticsearch index onto a relational table.  *)
(*                                                                         *)
(* Python values are modelled as follows.                                  *)
(*   - An optional string (None or a str) is a sequence of length 0 or 1:  *)
(*     None is << >>, the string s is <<s>>.  Python truthiness of such a  *)
(*     value is Truthy: neither None nor the empty string.                 *)
(*   - A dict is a function whose DOMAIN is the key set.                   *)
(*   - A return value is a record [kind, val]; kind is the Python type of  *)
(*     the returned object ("tuple", "list", "dict").                      *)
(* One call of a public method is one action taken from pc = "idle"; the   *)
(* variables then hold the arguments, the backend traffic, the log entries *)
(* and the return value of that call until the host starts the next call.  *)
(***************************************************************************)
EXTENDS Integers, Sequences, FiniteSets, TLC

\* ---------------------------------------------------------------- bounds
MaxQuals == 2
MaxHits == 1
MaxCount == 1

\* ------------------------------------------------------------ value sets
None == << >>
Some(v) == <<v>>

ColumnNames == {"id", "q", "msg"}
QualFieldNames == {"q", "msg"}
QualValues == {"", "s"}
DocIds == {"7", "x"}
FieldValues == {"x"}
RowValues == {"42", "hi"}
IndexNames == {"logs"}
DocTypeNames == {"entry"}
RowidColumnNames == {"id", "q"}
QueryColumnOptions == {None, Some(""), Some("q")}

PartialFunctions(D, R) == UNION {[S -> R] : S \in SUBSET D}
SeqsUpTo(S, n) == UNION {[1..k -> S] : k \in 0..n}

Qualifiers == [field_name : QualFieldNames, value : QualValues]
Documents == [_id : DocIds, _source : PartialFunctions(ColumnNames, FieldValues)]

\* What the backend does with a request: it answers ("ok"), the client call
\* raises ("raise"), or it answers without the key the code reads, 'count' or
\* 'hits' ("malformed"), which raises inside the handler's try block.
CountResponses ==
    {[kind |-> "ok", count |-> n] : n \in 0..MaxCount}
        \cup {[kind |-> "raise"], [kind |-> "malformed"]}
SearchResponses ==
    {[kind |-> "ok", hits |-> h] : h \in SeqsUpTo(Documents, MaxHits)}
        \cup {[kind |-> "raise"], [kind |-> "malformed"]}
WriteResponses == {[kind |-> "ok"], [kind |-> "raise"]}

Truthy(o) == o # None /\ o[1] # ""

VARIABLES
    index,          \* self.index
    doc_type,       \* self.doc_type
    query_column,   \* self.query_column, None or a string
    rowid_column,   \* self._rowid_column
    pc,             \* "idle", or the public method that has just returned
    quals,          \* argument quals of get_rel_size / execute
    columns,        \* argument columns of get_rel_size / execute
    document_id,    \* argument document_id of update / delete
    new_values_in,  \* argument new_values of insert / update, as passed
    new_values,     \* the same dict object when the call returns
    response,       \* what the backend did with the call's request
    query,          \* local variable query of get_rel_size / execute
    requests,       \* the requests the call made on self.client
    logs,           \* the log2pg entries the call emitted
    result          \* the object the call returned

config == <<index, doc_type, query_column, rowid_column>>
vars == <<index, doc_type, query_column, rowid_column,
          pc, quals, columns, document_id, new_values_in, new_values,
          response, query, requests, logs, result>>

NoResult == [kind |-> "none"]
NoResponse == [kind |-> "none"]
EmptyDict == [k \in {} |-> "x"]

\* log2pg(message, logging.ERROR): the entry keeps what the message is
\* formatted from.
ErrorLog(op) ==
    [level |-> "ERROR", op |-> op, index |-> index, doc_type |-> doc_type]
MissingRowidLog(nv) ==
    [level |-> "ERROR", op |-> "INSERT", rowid |-> rowid_column, values |-> nv]

\* ------------------------------------------------------------- _get_query
RECURSIVE FirstMatch(_, _)
FirstMatch(qs, col) ==
    IF qs = << >> THEN None
    ELSE IF Head(qs).field_name = col THEN Some(Head(qs).value)
    ELSE FirstMatch(Tail(qs), col)

RECURSIVE LastMatch(_, _)
LastMatch(qs, col) ==
    IF qs = << >> THEN None
    ELSE IF qs[Len(qs)].field_name = col THEN Some(qs[Len(qs)].value)
    ELSE LastMatch(SubSeq(qs, 1, Len(qs) - 1), col)

_get_query_last(qs) ==
    IF ~Truthy(query_column) THEN None
    ELSE LastMatch(qs, query_column[1])

_get_query(qs) ==
    IF ~Truthy(query_column) THEN None
    ELSE FirstMatch(qs, query_column[1])

\* ------------------------------------------------- response -> row mapping
_convert_response_column_field(column, row_data) ==
    IF column \in DOMAIN row_data._source THEN row_data._source[column]
    ELSE row_data._id

_convert_response_column(column, row_data) ==
    IF column = rowid_column THEN row_data._id
    ELSE row_data._source[column]

SelectedColumns(row_data, cols) ==
    {column \in cols : column \in DOMAIN row_data._source \/ column = rowid_column}

_convert_response_row_all(row_data, cols, qry) ==
    LET keys == DOMAIN row_data._source \cup (cols \cap {rowid_column})
    IN  IF Truthy(qry)
        THEN [column \in keys \cup {query_column[1]} |->
                 IF column = query_column[1] THEN qry[1]
                 ELSE _convert_response_column(column, row_data)]
        ELSE [column \in keys |-> _convert_response_column(column, row_data)]

_convert_response_row(row_data, cols, qry) ==
    IF Truthy(qry)
    THEN [column \in SelectedColumns(row_data, cols) \cup {query_column[1]} |->
             IF column = query_column[1] THEN qry[1]
             ELSE _convert_response_column(column, row_data)]
    ELSE [column \in SelectedColumns(row_data, cols) |->
             _convert_response_column(column, row_data)]

_convert_response(data, cols, qry) ==
    [i \in 1..Len(data.hits) |-> _convert_response_row(data.hits[i], cols, qry)]

\* ------------------------------------------------------------------ Init
Init ==
    /\ index \in IndexNames
    /\ doc_type \in DocTypeNames
    /\ query_column \in QueryColumnOptions
    /\ rowid_column \in RowidColumnNames
    /\ pc = "idle"
    /\ quals = << >>
    /\ columns = {}
    /\ document_id = None
    /\ new_values_in = EmptyDict
    /\ new_values = EmptyDict
    /\ response = NoResponse
    /\ query = None
    /\ requests = << >>
    /\ logs = << >>
    /\ result = NoResult

\* ---------------------------------------------------------- get_rel_size
\* The outcome of a call: the local variable query, the backend requests
\* issued, the log entries emitted, the caller's new_values dict after the
\* call, and the returned object.
Outcome(qry, reqs, lg, nv, res) ==
    [query |-> qry, requests |-> reqs, logs |-> lg, new_values |-> nv,
     result |-> res]

Tuple(a, b) == [kind |-> "tuple", val |-> <<a, b>>]
List(rows) == [kind |-> "list", val |-> rows]
Ack == [kind |-> "dict", val |-> << >>]

ReadRequest(api, qry) ==
    [api |-> api, index |-> index, doc_type |-> doc_type,
     q |-> IF Truthy(qry) THEN qry ELSE None]

get_rel_size(qs, cols, resp) ==
    LET qry == _get_query(qs)
        reqs == <<ReadRequest("count", qry)>>
    IN  IF resp.kind = "ok"
        THEN Outcome(qry, reqs, << >>, EmptyDict,
                     Tuple(resp.count, Cardinality(cols) * 100))
        ELSE Outcome(qry, reqs, <<ErrorLog("COUNT")>>, EmptyDict, Tuple(0, 0))

\* --------------------------------------------------------------- execute
execute(qs, cols, resp) ==
    LET qry == _get_query(qs)
        reqs == <<ReadRequest("search", qry)>>
    IN  IF resp.kind = "ok"
        THEN Outcome(qry, reqs, << >>, EmptyDict,
                     List(_convert_response(resp, cols, qry)))
        ELSE Outcome(qry, reqs, <<ErrorLog("SEARCH")>>, EmptyDict, Tuple(0, 0))

\* ------------------------------------------------- insert, update, delete
\* dict.pop(key, None): the dict without that key.
PopNothing(d, key) == d

Pop(d, key) == [k \in DOMAIN d \ {key} |-> d[k]]

IndexRequest(id, body) ==
    [api |-> "index", index |-> index, doc_type |-> doc_type,
     id |-> id, body |-> body]

DeleteRequest(id) ==
    [api |-> "delete", index |-> index, doc_type |-> doc_type, id |-> id]

IndexOutcome(id, body, resp) ==
    LET reqs == <<IndexRequest(id, body)>>
    IN  IF resp.kind = "ok"
        THEN Outcome(None, reqs, << >>, body, Ack)
        ELSE Outcome(None, reqs, <<ErrorLog("INDEX")>>, body, Tuple(0, 0))

insert_unchecked(nv, resp) ==
    IndexOutcome(IF rowid_column \in DOMAIN nv THEN Some(nv[rowid_column]) ELSE None,
                 Pop(nv, rowid_column), resp)

insert(nv, resp) ==
    IF rowid_column \notin DOMAIN nv
    THEN Outcome(None, << >>, <<MissingRowidLog(nv)>>, nv, Tuple(0, 0))
    ELSE IndexOutcome(Some(nv[rowid_column]), Pop(nv, rowid_column), resp)

update(id, nv, resp) ==
    IndexOutcome(Some(id), Pop(nv, rowid_column), resp)

delete(id, resp) ==
    LET reqs == <<DeleteRequest(Some(id))>>
    IN  IF resp.kind = "ok"
        THEN Outcome(None, reqs, << >>, EmptyDict, Ack)
        ELSE Outcome(None, reqs, <<ErrorLog("DELETE")>>, EmptyDict, Tuple(0, 0))

\* --------------------------------------------------------------- actions
Returned(name, out) ==
    /\ pc' = name
    /\ query' = out.query
    /\ requests' = out.requests
    /\ logs' = out.logs
    /\ new_values' = out.new_values
    /\ result' = out.result
    /\ UNCHANGED config

Call_get_rel_size ==
    /\ pc = "idle"
    /\ \E qs \in SeqsUpTo(Qualifiers, MaxQuals), cols \in SUBSET ColumnNames,
          resp \in CountResponses :
          /\ quals' = qs
          /\ columns' = cols
          /\ response' = resp
          /\ Returned("get_rel_size", get_rel_size(qs, cols, resp))
    /\ UNCHANGED <<document_id, new_values_in>>

Call_execute ==
    /\ pc = "idle"
    /\ \E qs \in SeqsUpTo(Qualifiers, MaxQuals), cols \in SUBSET ColumnNames,
          resp \in SearchResponses :
          /\ quals' = qs
          /\ columns' = cols
          /\ response' = resp
          /\ Returned("execute", execute(qs, cols, resp))
    /\ UNCHANGED <<document_id, new_values_in>>

Call_insert ==
    /\ pc = "idle"
    /\ \E nv \in PartialFunctions(ColumnNames, RowValues), resp \in WriteResponses :
          /\ new_values_in' = nv
          /\ response' = IF rowid_column \in DOMAIN nv THEN resp ELSE NoResponse
          /\ Returned("insert", insert(nv, resp))
    /\ UNCHANGED <<quals, columns, document_id>>

Call_update ==
    /\ pc = "idle"
    /\ \E id \in DocIds, nv \in PartialFunctions(ColumnNames, RowValues),
          resp \in WriteResponses :
          /\ document_id' = Some(id)
          /\ new_values_in' = nv
          /\ response' = resp
          /\ Returned("update", update(id, nv, resp))
    /\ UNCHANGED <<quals, columns>>

Call_delete ==
    /\ pc = "idle"
    /\ \E id \in DocIds, resp \in WriteResponses :
          /\ document_id' = Some(id)
          /\ response' = resp
          /\ Returned("delete", delete(id, resp))
    /\ UNCHANGED <<quals, columns, new_values_in>>

\* The call has returned; its arguments and results are call-local and the
\* host goes on to its next call with the same table binding.
Discard ==
    /\ pc # "idle"
    /\ pc' = "idle"
    /\ quals' = << >>
    /\ columns' = {}
    /\ document_id' = None
    /\ new_values_in' = EmptyDict
    /\ new_values' = EmptyDict
    /\ response' = NoResponse
    /\ query' = None
    /\ requests' = << >>
    /\ logs' = << >>
    /\ result' = NoResult
    /\ UNCHANGED config

Next ==
    \/ Call_get_rel_size
    \/ Call_execute
    \/ Call_insert
    \/ Call_update
    \/ Call_delete
    \/ Discard

Spec == Init /\ [][Next]_vars

\* ============================================================ properties
\* The rows of the last execute call, when it returned them.
ReturnedRows == pc = "execute" /\ result.kind = "list"
QueryColumnSet == query_column # None
MatchingQuals ==
    {i \in 1..Len(quals) : QueryColumnSet /\ quals[i].field_name = query_column[1]}
FirstMatching == CHOOSE i \in MatchingQuals : \A j \in MatchingQuals : i <= j
ZeroEffect == result.kind = "tuple" /\ result.val = <<0, 0>>
NoRows == result.kind = "list" /\ result.val = << >>
BackendFailed == response.kind \in {"raise", "malformed"}
OneErrorLogged == Len(logs) = 1 /\ logs[1].level = "ERROR"

\* C1: _get_query returns None when query_column is unset or no qualifier
\* has field_name = query_column, and otherwise the value of the first
\* qualifier in input order whose field_name equals query_column.
Thm_C1_FirstMatchWins ==
    pc \in {"get_rel_size", "execute"} =>
        IF MatchingQuals = {} THEN query = None
        ELSE query = Some(quals[FirstMatching].value)

Wit_C1_LaterMatchIgnored ==
    /\ pc = "execute"
    /\ Cardinality(MatchingQuals) = 2
    /\ quals[1].value # quals[2].value
    /\ query = Some(quals[1].value)

\* C2 (as stated): a row produced by _convert_response_row never has a key
\* outside the requested columns.
Orig_C2_KeysWithinRequested ==
    ReturnedRows =>
        \A i \in 1..Len(result.val) : DOMAIN result.val[i] \subseteq columns

\* C2 (amended): a row never has a key outside the requested columns, except
\* query_column, which is a key of every row whenever a non-empty query was
\* pushed down, requested or not.
Thm_C2_KeysWithinRequestedOrQuery ==
    ReturnedRows =>
        \A i \in 1..Len(result.val) :
            /\ DOMAIN result.val[i] \subseteq
                   columns \cup (IF Truthy(query) THEN {query_column[1]} ELSE {})
            /\ Truthy(query) => query_column[1] \in DOMAIN result.val[i]

Wit_C2_QueryColumnNotRequested ==
    /\ ReturnedRows
    /\ Len(result.val) = 1
    /\ Truthy(query)
    /\ query_column[1] \notin columns
    /\ DOMAIN response.hits[1]._source \ columns # {}
    /\ DOMAIN result.val[1] \ columns = {query_column[1]}

\* C3: every row produced by execute contains an entry for the rowid column.
Orig_C3_RowidAlwaysPresent ==
    ReturnedRows =>
        \A i \in 1..Len(result.val) : rowid_column \in DOMAIN result.val[i]

\* Hits whose _source has a field named like the rowid column, with a value
\* other than the document identifier.
ShadowingHits ==
    {i \in 1..Len(response.hits) :
        /\ rowid_column \in DOMAIN response.hits[i]._source
        /\ response.hits[i]._source[rowid_column] # response.hits[i]._id}
QueryIsRowid == Truthy(query) /\ query_column = Some(rowid_column)

\* C4 (as stated): for a document whose _source has a rowid-named field that
\* differs from _id, the row's rowid entry is _id under every configuration
\* and query; nothing overrides it.
Orig_C4_IdentifierAlwaysWins ==
    ReturnedRows =>
        \A i \in ShadowingHits :
            rowid_column \in DOMAIN result.val[i] =>
                result.val[i][rowid_column] = response.hits[i]._id

\* C4 (amended): for such a document the row's rowid entry is _id, never the
\* same-named field, unless the rowid column is also the query column and a
\* non-empty query was pushed down; the entry is then the pushed-down query.
Thm_C4_IdentifierWinsOverField ==
    ReturnedRows =>
        \A i \in ShadowingHits :
            rowid_column \in DOMAIN result.val[i] =>
                result.val[i][rowid_column] =
                    IF QueryIsRowid THEN query[1] ELSE response.hits[i]._id

Wit_C4_ShadowedFieldRequested ==
    /\ ReturnedRows
    /\ ShadowingHits = {1}
    /\ rowid_column \in columns
    /\ ~QueryIsRowid
    /\ result.val[1][rowid_column] = response.hits[1]._id

\* C5: when _get_query returned a value (any string, the empty one included)
\* and query_column is requested, every row's query_column entry is that
\* value.
Orig_C5_QueryEchoed ==
    (ReturnedRows /\ query # None /\ query_column[1] \in columns) =>
        \A i \in 1..Len(result.val) :
            /\ query_column[1] \in DOMAIN result.val[i]
            /\ result.val[i][query_column[1]] = query[1]

\* C6: when the search raises or its response is malformed, execute returns
\* an empty sequence of rows.
Orig_C6_FailureYieldsNoRows ==
    (pc = "execute" /\ BackendFailed) => NoRows

\* C7: when the backend call of get_rel_size, execute, insert, update or
\* delete fails, the call logs exactly one error and returns its degenerate
\* result: no rows for execute, (0, 0) for the others.
Orig_C7_FailureDegradesWithOneLog ==
    (pc # "idle" /\ BackendFailed) =>
        /\ OneErrorLogged
        /\ IF pc = "execute" THEN NoRows ELSE ZeroEffect

\* C8: insert of new_values without the rowid key issues no backend request,
\* logs one error, leaves new_values as passed and returns (0, 0).
Thm_C8_InsertWithoutRowid ==
    (pc = "insert" /\ rowid_column \notin DOMAIN new_values_in) =>
        /\ requests = << >>
        /\ OneErrorLogged
        /\ new_values = new_values_in
        /\ ZeroEffect

Wit_C8_InsertWithoutRowid ==
    /\ pc = "insert"
    /\ rowid_column \notin DOMAIN new_values_in
    /\ DOMAIN new_values_in # {}
    /\ requests = << >>

\* C9: the index request of insert (rowid key present) and of update has a
\* body without the rowid key that otherwise equals new_values as passed; its
\* id is new_values[rowid_column] for insert, document_id for update.
Thm_C9_RowidStrippedFromBody ==
    (\/ pc = "insert" /\ rowid_column \in DOMAIN new_values_in
     \/ pc = "update") =>
        /\ Len(requests) = 1
        /\ requests[1].api = "index"
        /\ DOMAIN requests[1].body = DOMAIN new_values_in \ {rowid_column}
        /\ \A k \in DOMAIN requests[1].body :
               requests[1].body[k] = new_values_in[k]
        /\ requests[1].id = IF pc = "insert"
                            THEN Some(new_values_in[rowid_column])
                            ELSE document_id

Wit_C9_RowidStrippedFromBody ==
    /\ pc = "insert"
    /\ rowid_column \in DOMAIN new_values_in
    /\ DOMAIN new_values_in \ {rowid_column} # {}
    /\ Len(requests) = 1
    /\ requests[1].id = Some("42")
    /\ rowid_column \notin DOMAIN requests[1].body

\* C10: the count request of get_rel_size and the search request of execute
\* are scoped to index/doc_type and carry q = the value _get_query returned
\* exactly when it returned one (the empty string included), no q otherwise;
\* on success get_rel_size returns (count, len(columns) * 100).
Orig_C10_FilterIffQueryPresent ==
    pc \in {"get_rel_size", "execute"} =>
        /\ Len(requests) = 1
        /\ requests[1].api = (IF pc = "execute" THEN "search" ELSE "count")
        /\ requests[1].index = index
        /\ requests[1].doc_type = doc_type
        /\ requests[1].q = query
        /\ (pc = "get_rel_size" /\ response.kind = "ok") =>
               /\ result.kind = "tuple"
               /\ result.val = <<response.count, Cardinality(columns) * 100>>

====
